---- MODULE Spec2Model ----
(***************************************************************************)
(* The chat orchestration and voting engine of the vendored game           *)
(* (allms/core): GameStateManager, GameState, AgentVoting, Agent,          *)
(* ChatMessage, ChatMessageHistory and ChatMessageIDGenerator.             *)
(*                                                                         *)
(* Every manager method is one action: the methods are synchronous, or     *)
(* are coroutines that never suspend (send_message, edit_message and       *)
(* delete_message only await coroutines that return without yielding), so  *)
(* each runs to completion before any other task.  The one deferred piece  *)
(* is __add_event, which hands add_event to asyncio.gather: the event      *)
(* message reaches the history in a later step (RunAddEvent).              *)
(*                                                                         *)
(* The coroutines scheduled that way run before the next handler does, so  *)
(* a handler is taken only with none of them pending.                      *)
(*                                                                         *)
(* A Python exception aborts the handler where it is raised and keeps the  *)
(* writes made so far; handlers are operators from a state record to a     *)
(* state record whose field "raised" says that the call ended that way.    *)
(*                                                                         *)
(* Spec is a game played through the chat screen and the agents' tasks.    *)
(* The other specifications start from the same state: SpecLog is a long   *)
(* chat, SpecVoting drives AgentVoting alone, SpecLate has a vote screen   *)
(* that was left open, SpecSetup is the new-chatroom screen, SpecTurn      *)
(* follows the turns of agent_loop and generate_response, SpecLive has the *)
(* worker tick for ever, SpecClock has the worker read a wall clock that   *)
(* may be set back, SpecRace has the human vote and the worker tick while  *)
(* an agent's turn waits for its response, and SpecPause has the loops     *)
(* paused and resumed.                                                     *)
(*                                                                         *)
(* Left out: timestamps other than the one the worker reads,               *)
(* thought_process, suspect_reason, reply_to_id (no caller passes it),     *)
(* genre, scenario, persona, game_paused, and the UI callbacks other than  *)
(* the typing indicator, none of which is read by the modelled code paths. *)
(***************************************************************************)
EXTENDS Integers, Sequences, FiniteSets, TLC

(***************************************************************************)
(* Bounds of the model                                                     *)
(***************************************************************************)
\* manager calls and worker ticks that change the state, per behaviour of Spec
MaxCalls == 3
\* send_message calls in one behaviour of Spec
MaxSends == 1
\* edit_message / delete_message calls in one behaviour of Spec
MaxEdits == 2
\* voting rounds opened in one behaviour of Spec
MaxRounds == 1
\* manager calls made by the human in the name of another agent, per behaviour
MaxTamper == 1
\* entries appended to one chat log beyond its capacity in SpecLog
MaxOverflow == 3
\* calls the human makes in one behaviour of SpecLog
MaxAsides == 1

(***************************************************************************)
(* Program constants                                                       *)
(***************************************************************************)
max_lookback_messages == 30
min_agent_count == 3
who_talked_maxlen == 10
\* the vote countdown, in worker ticks of nominal length (10 minutes of
\* one-second ticks in the source; the unit here is coarser)
VoteDuration == 2
\* the longest time between two worker ticks, in the same unit
MaxElapsed == 2
\* the turns an agent's loop takes in one behaviour
MaxTurns == 2
\* AppConfiguration.max_model_retries
max_model_retries == 3
\* the default of agent_loop's max_turn_skips
max_turn_skips == 5
\* create_suspicion_message's threshold on suspect_confidence
SuspicionThreshold == 80

None == "None"
System == "System"

\* the agent ids AgentFactory.create can hand out here, in sorted order
AgentOrder == <<"a", "b", "c", "d">>
AllIds == {AgentOrder[i] : i \in 1..Len(AgentOrder)}
\* an id that names no agent of the game, as an LLM may write one ("A" for
\* "a" passes the case-insensitive allow-list check of the response model)
Foreign == "A"
Upper == [x \in AllIds |-> CASE x = "a" -> "A" [] x = "b" -> "B" [] x = "c" -> "C" [] OTHER -> "D"]

\* message texts the senders and editors type
SendTexts == {"hi"}
EditTexts == {"edited"}
DeletedText == "This message has been deleted"

\* two of the fifteen phrases __notify_if_you_are_silent draws from
NotifyMsgs == {"has been silent for too long ... almost like they're afraid of slipping up.",
               "is too quiet ... silence feels like a cover-up."}

RoleSystem == "system"
RoleUser == "user"
RoleAssistant == "assistant"

(***************************************************************************)
(* The state                                                               *)
(***************************************************************************)
VARIABLES
    your_agent_id,        \* GameState.your_agent_id
    all_agents,           \* GameState._all_agents: id -> Agent
    remaining_agent_ids,  \* GameState._remaining_agent_ids
    messages,             \* GameState.messages._history_all, in insertion order
    id_generator,         \* GameState._id_generator._id
    voting,               \* GameState._voting
    vote_duration_timer,  \* GameState._vote_duration_timer
    game_ended,           \* GameState.game_ended
    game_won,             \* GameState.game_won
    who_talked,           \* GameState._who_talked
    talk_count,           \* GameState._talk_count (0 stands for an absent key)
    pending_events,       \* add_event coroutines scheduled by __add_event
    llm_agent_ids,        \* ChatLoop._llm_agent_ids: the agents whose task runs
    chat_loop,            \* GameStateManager._chat_loop is not None
    pause_loop,           \* ChatLoop._pause_loop
    agent_turn,           \* per agent task: where agent_loop is, and its counts
    background_worker,    \* whether the background_worker coroutine is running
    allocated,            \* history: the ids generate_message_id returned, in order
    appended,             \* history: per agent, how many entries add_to_chat_log took
    sent,                 \* history: the send_message calls, in order
    budget                \* history: the calls made so far, against the bounds

vars == <<your_agent_id, all_agents, remaining_agent_ids, messages, id_generator,
          voting, vote_duration_timer, game_ended, game_won, who_talked, talk_count,
          pending_events, llm_agent_ids, chat_loop, pause_loop, agent_turn,
          background_worker, allocated, appended, sent, budget>>

(***************************************************************************)
(* Helpers on sequences and sets                                           *)
(***************************************************************************)
Range(s) == {s[i] : i \in 1..Len(s)}

Max(S) == CHOOSE x \in S : \A y \in S : y <= x

Ceil2(n) == (n + 1) \div 2

RECURSIVE SumOver(_, _)
SumOver(f, S) == IF S = {} THEN 0
                 ELSE LET x == CHOOSE y \in S : TRUE IN f[x] + SumOver(f, S \ {x})

\* the members of S in the order of AgentOrder
SortedIds(S) == SelectSeq(AgentOrder, LAMBDA x : x \in S)

RECURSIVE Join(_)
Join(s) == IF Len(s) = 0 THEN ""
           ELSE IF Len(s) = 1 THEN s[1]
           ELSE s[1] \o ", " \o Join(Tail(s))


\* a deque that never drops an entry
DequeAppend_unbounded(q, e, maxlen) == Append(q, e)

\* collections.deque(maxlen=n).append: a full deque drops its oldest entry
DequeAppend(q, e, maxlen) == IF Len(q) >= maxlen THEN Append(Tail(q), e) ELSE Append(q, e)

\* dict[key] = value on a dict held as a function
DictSet(d, k, v) == [x \in DOMAIN d \cup {k} |-> IF x = k THEN v ELSE d[x]]

(***************************************************************************)
(* ChatMessageIDGenerator, ChatMessage, ChatMessageFormatter               *)
(***************************************************************************)
\* a generator that forgets to advance
ChatMessageIDGenerator_next_stuck(g) == [id |-> ToString(g), gen |-> g]

\* ChatMessageIDGenerator.next: the id handed out and the generator afterwards
ChatMessageIDGenerator_next(g) == [id |-> ToString(g), gen |-> g + 1]

\* the number an id was made from (the inverse of str on the ids in use)
IdNumber(id) == CHOOSE n \in 0..id_generator : ToString(n) = id

\* suspect_confidence is Optional[int]: <<>> is None, <<n>> is n
ChatMessage(id, msg, sent_by, sent_by_you, sent_to, suspect, suspect_confidence, is_announcement) ==
    [id |-> id, msg |-> msg, sent_by |-> sent_by, sent_by_you |-> sent_by_you,
     sent_to |-> sent_to, edited |-> FALSE, deleted |-> FALSE,
     edited_by_you |-> FALSE, deleted_by_you |-> FALSE,
     is_announcement |-> is_announcement,
     suspect |-> suspect, suspect_confidence |-> suspect_confidence,
     history_log |-> <<>>]

ChatMessageEditLog(prev_msg, edited_by_you, deleted_by_you) ==
    [prev_msg |-> prev_msg, edited_by_you |-> edited_by_you, deleted_by_you |-> deleted_by_you]

\* a message that stays open to changes after its deletion
can_edit_or_delete_always(m) == TRUE

can_edit_or_delete(m) == ~m.deleted

ChatMessage_edit(m, message, edited_by_you) ==
    IF ~can_edit_or_delete(m) THEN m
    ELSE [m EXCEPT !.msg = message, !.edited = TRUE, !.edited_by_you = edited_by_you,
                   !.history_log = Append(@, ChatMessageEditLog(m.msg, edited_by_you, FALSE))]

ChatMessage_delete(m, deleted_by_you) ==
    IF ~can_edit_or_delete(m) THEN m
    ELSE [m EXCEPT !.deleted = TRUE, !.deleted_by_you = deleted_by_you, !.msg = DeletedText,
                   !.history_log = Append(@, ChatMessageEditLog(m.msg, FALSE, deleted_by_you))]

create_announcement_message(m) == "[IMPORTANT] " \o m.msg

\* called only with a suspect; the comparison raises TypeError on a None confidence
create_suspicion_message(m) ==
    "Current suspect: " \o m.suspect \o "; Confidence: " \o ToString(m.suspect_confidence[1])
        \o "; Reason: None. "
        \o (IF m.suspect_confidence[1] >= SuspicionThreshold
            THEN "Perhaps you should consider starting a vote" ELSE "")

create_sent_by_human_message(m) ==
    "[IMPORTANT] The human has SENT the following message via you -- '" \o m.msg \o "'"

create_hacked_by_human_message(m, is_edit) ==
    "[IMPORTANT] The human has " \o (IF is_edit THEN "EDITED" ELSE "DELETED")
        \o " your previous message -- '" \o m.history_log[Len(m.history_log)].prev_msg \o "'"
        \o (IF is_edit THEN " to '" \o m.msg \o "'" ELSE "")

(***************************************************************************)
(* Agent                                                                   *)
(***************************************************************************)
NewAgent == [msg_ids |-> {}, dm_msg_ids_recv |-> [x \in {} |-> {}],
             dm_msg_ids_sent |-> [x \in {} |-> {}], chat_logs |-> <<>>, latest_msg |-> ""]

LogEntry(role, msg, is_message_id) == [role |-> role, msg |-> msg, is_id |-> is_message_id]

add_to_chat_log(agent, role, msg, is_message_id) ==
    [agent EXCEPT !.chat_logs = DequeAppend(@, LogEntry(role, msg, is_message_id), max_lookback_messages),
                  !.latest_msg = msg]

\* Agent.can_reply
can_reply(agent, latest_msg_id) == latest_msg_id = None \/ agent.latest_msg # latest_msg_id

add_message_id(agent, msg_id) == [agent EXCEPT !.msg_ids = @ \cup {msg_id}]

add_dm_message_id(agent, msg_id, agent_id, dm_received) ==
    IF dm_received
    THEN [agent EXCEPT !.dm_msg_ids_recv =
            DictSet(@, agent_id, (IF agent_id \in DOMAIN @ THEN @[agent_id] ELSE {}) \cup {msg_id})]
    ELSE [agent EXCEPT !.dm_msg_ids_sent =
            DictSet(@, agent_id, (IF agent_id \in DOMAIN @ THEN @[agent_id] ELSE {}) \cup {msg_id})]

(***************************************************************************)
(* AgentVoting                                                             *)
(***************************************************************************)
NewVoting == [vote_map |-> [x \in {} |-> None], result_map |-> [x \in {} |-> 0],
              vote_has_started |-> FALSE, started_by |-> None]

AgentVoting_start_vote(v, started_by) ==
    IF ~v.vote_has_started
    THEN [vote_map |-> [x \in {} |-> None], result_map |-> [x \in {} |-> 0],
          vote_has_started |-> TRUE, started_by |-> started_by]
    ELSE v

\* a ballot that forgets who has voted
AgentVoting_can_vote_again(v, by_agent) == v.vote_has_started

AgentVoting_can_vote(v, by_agent) ==
    IF by_agent \in DOMAIN v.vote_map THEN FALSE ELSE v.vote_has_started

\* the voting afterwards; the call returned True exactly when can_vote held before
AgentVoting_vote(v, by_agent, for_agent) ==
    IF AgentVoting_can_vote(v, by_agent)
    THEN [v EXCEPT !.vote_map = DictSet(@, by_agent, for_agent),
                   !.result_map = DictSet(@, for_agent,
                        (IF for_agent \in DOMAIN @ THEN @[for_agent] ELSE 0) + 1)]
    ELSE v

get_max_votes_received(v) ==
    IF DOMAIN v.result_map = {} THEN 0
    ELSE Max({v.result_map[x] : x \in DOMAIN v.result_map})

AgentVoting_end_vote(v) == [v EXCEPT !.vote_has_started = FALSE]

AgentVoting_reset(v) == [v EXCEPT !.vote_map = [x \in {} |-> None],
                                  !.vote_has_started = FALSE, !.started_by = None]


(***************************************************************************)
(* The state as one record, so that a handler is an operator on it         *)
(***************************************************************************)
Cur == [all_agents |-> all_agents, remaining |-> remaining_agent_ids, messages |-> messages,
        idgen |-> id_generator, voting |-> voting, timer |-> vote_duration_timer,
        game_ended |-> game_ended, game_won |-> game_won,
        who_talked |-> who_talked, talk_count |-> talk_count,
        pending |-> pending_events, llm_agent_ids |-> llm_agent_ids, chat_loop |-> chat_loop,
        allocated |-> allocated, appended |-> appended, raised |-> FALSE]

Raise(S) == [S EXCEPT !.raised = TRUE]

\* add_to_chat_log on each agent of ids (all of them keys of _all_agents)
LogTo(S, ids, role, msg, is_message_id) ==
    [S EXCEPT !.all_agents = [x \in DOMAIN @ |->
                    IF x \in ids THEN add_to_chat_log(@[x], role, msg, is_message_id) ELSE @[x]],
              !.appended = [x \in DOMAIN @ |-> IF x \in ids THEN @[x] + 1 ELSE @[x]]]

HasMessage(msgs, msg_id) == \E i \in 1..Len(msgs) : msgs[i].id = msg_id

MsgIndex(msgs, msg_id) == CHOOSE i \in 1..Len(msgs) : msgs[i].id = msg_id

\* ChatMessageHistory.add: asserts that the id is new
ChatMessageHistory_add(S, m) ==
    IF HasMessage(S.messages, m.id) THEN Raise(S)
    ELSE [S EXCEPT !.messages = Append(@, m)]

(***************************************************************************)
(* GameState                                                               *)
(***************************************************************************)
\* announce_to_agents(msg, send_to): to = None is every remaining agent, which
\* get_all_remaining_agents_ids asserts to be two at least
GameState_announce_to_agents(S, fmt_msg, to) ==
    IF to = None
    THEN IF Cardinality(S.remaining) < 2 THEN Raise(S)
         ELSE LogTo(S, S.remaining, RoleSystem, fmt_msg, FALSE)
    ELSE IF to \notin DOMAIN S.all_agents THEN Raise(S)
         ELSE LogTo(S, {to}, RoleSystem, fmt_msg, FALSE)

\* __notify_if_you_are_silent(agent_id); phrase is what random.choice draws
notify_if_you_are_silent(S, agent_id, phrase) ==
    IF agent_id \notin S.remaining THEN S
    ELSE LET n_talked == Len(S.who_talked)
             full == n_talked = who_talked_maxlen
             tc1 == IF full THEN [S.talk_count EXCEPT ![S.who_talked[1]] = @ - 1]
                    ELSE S.talk_count
             tc2 == [tc1 EXCEPT ![agent_id] = @ + 1]
             S1 == [S EXCEPT !.who_talked = DequeAppend(@, agent_id, who_talked_maxlen),
                             !.talk_count = tc2]
         IN IF tc2[your_agent_id] > 0 \/ n_talked < who_talked_maxlen THEN S1
            ELSE GameState_announce_to_agents(S1,
                    "[IMPORTANT] " \o Upper[your_agent_id] \o " " \o phrase
                        \o " Perhaps you should SHIFT YOUR FOCUS TO THEM.", agent_id)

\* a fan-out that leaves the sender out
broadcast_msg_to_others(S, message) ==
    (IF message.sent_to # None THEN {message.sent_to} ELSE S.remaining) \ {message.sent_by}

\* who gets the id of a message in its chat log
broadcast_msg_to(S, message) ==
    IF message.sent_to # None THEN {message.sent_by, message.sent_to}
    ELSE {message.sent_by} \cup S.remaining

\* the fan-out and the tracker, the last part of add_message
add_message_fan_out(S, message, phrase) ==
    LET to == broadcast_msg_to(S, message)
        S1 == [S EXCEPT !.all_agents = [x \in DOMAIN @ |->
                            IF x \in to
                            THEN add_to_chat_log(@[x],
                                    IF x = message.sent_by THEN RoleAssistant ELSE RoleUser,
                                    message.id, TRUE)
                            ELSE @[x]],
                        !.appended = [x \in DOMAIN @ |-> IF x \in to THEN @[x] + 1 ELSE @[x]]]
    IN notify_if_you_are_silent(S1, message.sent_by, phrase)

\* the DM index, or the AssertionError of get_agent(sent_to)
add_message_dm(S, message, phrase) ==
    IF message.sent_to = None THEN add_message_fan_out(S, message, phrase)
    ELSE IF message.sent_to \notin DOMAIN S.all_agents THEN Raise(S)
    ELSE LET from == message.sent_by
             to == message.sent_to
             A1 == [S.all_agents EXCEPT ![from] = add_dm_message_id(@, message.id, to, FALSE)]
             A2 == [A1 EXCEPT ![to] = add_dm_message_id(@, message.id, from, TRUE)]
         IN add_message_fan_out([S EXCEPT !.all_agents = A2], message, phrase)

\* the suspicion note, or the TypeError of comparing a None confidence with 80
add_message_suspicion(S, message, phrase) ==
    IF ~message.sent_by_you /\ message.suspect # None
    THEN IF message.suspect_confidence = <<>> THEN Raise(S)
         ELSE add_message_dm(LogTo(S, {message.sent_by}, RoleSystem,
                                   create_suspicion_message(message), FALSE),
                             message, phrase)
    ELSE add_message_dm(S, message, phrase)

\* a note for every message the human sends, its own included
sent_via_other_any(message) == message.sent_by_you

\* whether add_message tells the sender that the human sent this through it
sent_via_other(message) == message.sent_by # your_agent_id /\ message.sent_by_you

add_message_sent_by_human(S, message, phrase) ==
    IF sent_via_other(message)
    THEN add_message_suspicion(LogTo(S, {message.sent_by}, RoleSystem,
                                     create_sent_by_human_message(message), FALSE),
                               message, phrase)
    ELSE add_message_suspicion(S, message, phrase)

\* GameState.add_message
add_message(S, message, phrase) ==
    IF message.sent_by \notin S.remaining THEN S
    ELSE LET S1 == ChatMessageHistory_add(S, message)
         IN IF S1.raised THEN S1
            ELSE add_message_sent_by_human(
                    [S1 EXCEPT !.all_agents[message.sent_by] = add_message_id(@, message.id)],
                    message, phrase)

\* __check_and_notify_if_modifying_others_message
check_and_notify_if_modifying_others_message(S, msg_id, is_edit) ==
    LET m == S.messages[MsgIndex(S.messages, msg_id)]
    IN IF m.sent_by = your_agent_id THEN S
       ELSE IF m.sent_by \notin DOMAIN S.all_agents THEN Raise(S)
       ELSE IF Len(m.history_log) = 0 THEN Raise(S)
       ELSE LogTo(S, {m.sent_by}, RoleSystem, create_hacked_by_human_message(m, is_edit), FALSE)

\* GameState.edit_message
edit_message(S, msg_id, msg_contents, edited_by_you) ==
    IF ~HasMessage(S.messages, msg_id) THEN Raise(S)
    ELSE LET i == MsgIndex(S.messages, msg_id)
             S1 == [S EXCEPT !.messages[i] = ChatMessage_edit(@, msg_contents, edited_by_you)]
         IN IF edited_by_you
            THEN check_and_notify_if_modifying_others_message(S1, msg_id, TRUE)
            ELSE S1

\* GameState.delete_message
delete_message(S, msg_id, deleted_by_you) ==
    IF ~HasMessage(S.messages, msg_id) THEN Raise(S)
    ELSE LET i == MsgIndex(S.messages, msg_id)
             S1 == [S EXCEPT !.messages[i] = ChatMessage_delete(@, deleted_by_you)]
         IN IF deleted_by_you
            THEN check_and_notify_if_modifying_others_message(S1, msg_id, FALSE)
            ELSE S1

\* a round that waits for every vote, whatever the majority
can_end_vote_all_voted(S) ==
    /\ S.voting.vote_has_started
    /\ Cardinality(DOMAIN S.voting.vote_map) = Cardinality(S.remaining)

\* GameState.can_end_vote (called with a vote open)
can_end_vote(S) ==
    IF ~S.voting.vote_has_started THEN FALSE
    ELSE LET n_voters == Cardinality(DOMAIN S.voting.vote_map)
             n_agents == Cardinality(S.remaining)
         IN \/ n_voters = n_agents
            \/ get_max_votes_received(S.voting) > n_agents \div 2

\* a start_voting without its guard
start_voting_starts_always(S) == TRUE

\* GameState.start_voting: whether it starts a round
start_voting_starts(S) == ~S.voting.vote_has_started

\* GameState.vote: whether the vote is taken
GameState_vote_ok(S, by_agent, for_agent) ==
    /\ by_agent \in S.remaining
    /\ for_agent \in S.remaining
    /\ AgentVoting_can_vote(S.voting, by_agent)

\* GameState.update_duration, on the vote countdown
update_duration(S, elapsed) ==
    IF S.timer # 0 THEN [S EXCEPT !.timer = @ - elapsed] ELSE S

vote_duration_timer_has_expired(S) == S.timer <= 0


(***************************************************************************)
(* GameStateManager                                                        *)
(***************************************************************************)
\* __create_new_message: the id is drawn first; an announcement is sent by System
create_new_message(S, msg, sent_by, sent_by_you, sent_to, suspect, suspect_confidence, is_announcement) ==
    LET n == ChatMessageIDGenerator_next(S.idgen)
    IN [S |-> [S EXCEPT !.idgen = n.gen, !.allocated = Append(@, n.id)],
        msg |-> ChatMessage(n.id, msg, IF is_announcement THEN System ELSE sent_by,
                            sent_by_you, sent_to, suspect, suspect_confidence, is_announcement)]

\* GameStateManager.announce_to_agents
announce_to_agents(S, inform_msg, announce_to) ==
    IF S.raised THEN S
    ELSE LET c == create_new_message(S, inform_msg, None, FALSE, announce_to, None, <<>>, TRUE)
         IN GameState_announce_to_agents(c.S, create_announcement_message(c.msg), c.msg.sent_to)

\* __add_event: the message is made now and add_event is left to the event loop
add_event(S, event) ==
    IF S.raised THEN S
    ELSE LET c == create_new_message(S, event, None, FALSE, None, None, <<>>, TRUE)
         IN [c.S EXCEPT !.pending = Append(@, c.msg)]

preprocess_agent_id(agent_id) ==
    IF agent_id = your_agent_id THEN agent_id \o " (You)" ELSE agent_id

\* stop_llms(agent_id) and, with agent_id = None, stop_llms()
stop_llms(S, agent_id) ==
    IF S.raised \/ ~S.chat_loop THEN S
    ELSE IF agent_id = None
    THEN [S EXCEPT !.llm_agent_ids = {}, !.chat_loop = FALSE]
    ELSE IF agent_id \notin S.llm_agent_ids THEN Raise(S)
    ELSE [S EXCEPT !.llm_agent_ids = @ \ {agent_id}]

\* GameStateManager.end_game
end_game(S, won) ==
    IF S.raised THEN S
    ELSE LET S1 == add_event(S, "-- The game has ended. "
                        \o (IF won THEN "You have Won!" ELSE "You Have Been Terminated!") \o " --")
         IN [S1 EXCEPT !.game_ended = TRUE, !.game_won = won]

\* "won" computed from the head count after the removal
terminate_won_at_two(n_remaining, agent_id) == n_remaining = 2 /\ agent_id # your_agent_id

\* terminate_agent's "won", computed before the agent is removed
terminate_won(n_remaining, agent_id) == n_remaining = 3 /\ agent_id # your_agent_id

\* a termination that lets the game go on whoever is removed
terminate_agent_goes_on(S, agent_id) ==
    IF S.raised THEN S
    ELSE IF agent_id \notin S.remaining THEN Raise(S)
    ELSE LET S1 == [S EXCEPT !.remaining = @ \ {agent_id}]
             S2 == add_event(S1, preprocess_agent_id(agent_id) \o " was removed from the chat")
         IN IF agent_id # your_agent_id THEN stop_llms(S2, agent_id) ELSE S2

\* GameStateManager.terminate_agent
terminate_agent(S, agent_id) ==
    IF S.raised THEN S
    ELSE IF agent_id \notin S.remaining THEN Raise(S)
    ELSE LET n_remaining == Cardinality(S.remaining)
             won == terminate_won(n_remaining, agent_id)
             S1 == [S EXCEPT !.remaining = @ \ {agent_id}]
             S2 == add_event(S1, preprocess_agent_id(agent_id) \o " was removed from the chat")
         IN IF agent_id # your_agent_id /\ ~won
            THEN announce_to_agents(stop_llms(S2, agent_id),
                    agent_id \o " has been TERMINATED. " \o agent_id \o " was NOT the HUMAN ...",
                    None)
            ELSE end_game(stop_llms(S2, None), won)

\* a tally without quorum and without the tie rule: the first of the most voted goes
process_vote_results_first_past_the_post(S, results, voters) ==
    IF DOMAIN results = {} THEN [kick |-> None, conclusion |-> "Vote Rejected."]
    ELSE LET max_votes == Max({results[x] : x \in DOMAIN results})
         IN [kick |-> CHOOSE x \in DOMAIN results : results[x] = max_votes,
             conclusion |-> "Vote Concluded."]

\* __process_vote_results: who is kicked (None for nobody) and the conclusion
process_vote_results(S, results, voters) ==
    LET n_remaining == Cardinality(S.remaining)
        min_count == Ceil2(n_remaining)
        total_votes == SumOver(results, DOMAIN results)
        did_not_vote == S.remaining \ voters
        \* the names are joined in the order of AgentOrder
        did_not_vote_str == IF did_not_vote # {}
                            THEN "Following agents did not vote: " \o Join(SortedIds(did_not_vote))
                            ELSE ""
    IN IF total_votes = 0
       THEN [kick |-> None, conclusion |-> "Vote Rejected. No votes were cast. " \o did_not_vote_str]
       ELSE IF total_votes < min_count
       THEN [kick |-> None,
             conclusion |-> "Vote Rejected. Only " \o ToString(total_votes)
                 \o " agents have voted. Minimum required: " \o ToString(min_count) \o ". "
                 \o did_not_vote_str]
       ELSE LET max_votes == Max({results[x] : x \in DOMAIN results})
                kick_agents == {x \in DOMAIN results : results[x] = max_votes}
            IN IF Cardinality(kick_agents) > 1
               THEN [kick |-> None,
                     conclusion |-> "Vote Rejected. " \o ToString(Cardinality(kick_agents))
                         \o " agents (" \o Join(SortedIds(kick_agents)) \o ") received same number of votes ("
                         \o ToString(max_votes) \o "). " \o did_not_vote_str]
               ELSE LET agent_to_kick == CHOOSE x \in kick_agents : TRUE
                    IN [kick |-> agent_to_kick,
                        conclusion |-> "Vote Concluded. " \o agent_to_kick \o " received "
                            \o ToString(max_votes) \o " out of "
                            \o ToString(IF total_votes > n_remaining THEN total_votes ELSE n_remaining)
                            \o " votes and hence, will be terminated. " \o did_not_vote_str]

\* GameStateManager.end_vote
end_vote(S) ==
    IF S.raised \/ ~S.voting.vote_has_started THEN S
    ELSE LET S1 == [S EXCEPT !.timer = 0, !.voting = AgentVoting_end_vote(@)]
         IN IF Cardinality(S1.remaining) < 2 THEN Raise(S1)
            ELSE LET r == process_vote_results(S1, S.voting.result_map, DOMAIN S.voting.vote_map)
                     S2 == add_event(announce_to_agents(S1, r.conclusion, None), r.conclusion)
                 IN IF r.kick # None THEN terminate_agent(S2, r.kick) ELSE S2

\* GameStateManager.start_vote
start_vote(S, started_by, started_by_you) ==
    IF ~start_voting_starts(S) THEN S
    ELSE LET S1 == [S EXCEPT !.timer = VoteDuration,
                             !.voting = AgentVoting_start_vote(@, started_by)]
             S2 == IF started_by_you /\ started_by # your_agent_id
                   THEN announce_to_agents(S1, "The human has started the vote as you", started_by)
                   ELSE S1
         IN add_event(S2, "Vote has been started by " \o preprocess_agent_id(started_by))

\* GameStateManager.vote
vote(S, by_agent, for_agent, voting_by_you) ==
    IF ~GameState_vote_ok(S, by_agent, for_agent) THEN S
    ELSE LET S1 == [S EXCEPT !.voting = AgentVoting_vote(@, by_agent, for_agent)]
             S2 == announce_to_agents(S1, by_agent \o " has voted for " \o for_agent, None)
             S3 == IF voting_by_you /\ by_agent # your_agent_id
                   THEN announce_to_agents(S2, "The human has voted for <" \o for_agent \o "> as you", by_agent)
                   ELSE S2
             S4 == add_event(S3, preprocess_agent_id(by_agent) \o " voted for " \o for_agent)
         IN IF S4.raised THEN S4
            ELSE IF can_end_vote(S4) THEN end_vote(S4) ELSE S4

\* GameStateManager.send_message
send_message(S, msg, sent_by, sent_by_you, sent_to, suspect, suspect_confidence, phrase) ==
    LET c == create_new_message(S, msg, sent_by, sent_by_you, sent_to, suspect, suspect_confidence, FALSE)
    IN add_message(c.S, c.msg, phrase)

\* VotingWidget.__vote: the vote screen starts the round if none is open
VotingWidget_vote(S, agent_id, voting_for) ==
    vote(IF ~S.voting.vote_has_started THEN start_vote(S, agent_id, TRUE) ELSE S,
         agent_id, voting_for, TRUE)

\* step 3 of a turn of agent_loop with "vote_started" as the loop has read it:
\* the state it leaves, and the callbacks it invokes, each with whether a round
\* was open when it was invoked
apply_vote_of_response(S, agent_id, vote_started, start_a_vote, voting_for) ==
    LET starts == start_a_vote /\ ~vote_started
        S1 == IF starts THEN start_vote(S, agent_id, FALSE) ELSE S
        votes == (vote_started \/ starts) /\ voting_for # None
    IN [S |-> IF votes THEN vote(S1, agent_id, voting_for, FALSE) ELSE S1,
        invoked |-> (IF starts THEN <<[callback |-> "START_A_VOTE",
                                       open |-> S.voting.vote_has_started]>> ELSE <<>>)
                    \o (IF votes THEN <<[callback |-> "VOTE_FOR",
                                        open |-> S1.voting.vote_has_started]>> ELSE <<>>)]

\* the end of a turn of agent_loop: the round is started on request if none is
\* open, and the vote is cast if one is open then
agent_loop_vote(S, agent_id, start_a_vote, voting_for) ==
    apply_vote_of_response(S, agent_id, S.voting.vote_has_started, start_a_vote, voting_for).S

\* a tick that counts down and closes nothing
background_tick_no_close(S, elapsed) == update_duration(S, elapsed)

\* one tick of background_worker
background_tick(S, elapsed) ==
    LET S1 == update_duration(S, elapsed)
    IN IF S1.voting.vote_has_started /\ vote_duration_timer_has_expired(S1)
       THEN end_vote(S1) ELSE S1


(***************************************************************************)
(* Init: the state when the chat screen opens, after new(), create_agents, *)
(* assign_agent_to_user, initialize_events and start_llms, with the        *)
(* add_event coroutines of initialize_events run                           *)
(***************************************************************************)
\* the games create_agents can set up here: min_agent_count agents or one more
AgentSets == {{AgentOrder[i] : i \in 1..n} : n \in min_agent_count..Len(AgentOrder)}

Blank(ids) == [all_agents |-> [x \in ids |-> NewAgent], remaining |-> ids, messages |-> <<>>,
               idgen |-> 0, voting |-> NewVoting, timer |-> 0,
               game_ended |-> FALSE, game_won |-> FALSE,
               who_talked |-> <<>>, talk_count |-> [x \in ids |-> 0],
               pending |-> <<>>, llm_agent_ids |-> {}, chat_loop |-> FALSE,
               allocated |-> <<>>, appended |-> [x \in ids |-> 0], raised |-> FALSE]

RECURSIVE AddedEvents(_, _)
AddedEvents(S, ids) ==
    IF Len(ids) = 0 THEN S
    ELSE AddedEvents(add_event(S, preprocess_agent_id(ids[1]) \o " has been added to the chat"),
                     Tail(ids))

\* GameStateManager.initialize_events
initialize_events(S) ==
    announce_to_agents(AddedEvents(S, SortedIds(DOMAIN S.all_agents)),
        "Who do you think is the most suspicious agent based on their persona and the current scenario? "
            \o "No one has talked yet. Provide your conjecture.", None)

\* GameStateManager.start_llms: one task per agent but the human's
start_llms(S) ==
    [S EXCEPT !.llm_agent_ids = DOMAIN S.all_agents \ {your_agent_id}, !.chat_loop = TRUE]

Opening(ids) == LET S == start_llms(initialize_events(Blank(ids)))
                IN [S EXCEPT !.messages = S.pending, !.pending = <<>>]

NoBudget == [calls |-> 0, sends |-> 0, edits |-> 0, rounds |-> 0, tamper |-> 0]

\* an agent_loop task before its first turn
NewTurn == [at |-> "sleep", tries |-> 0, turns |-> 0, lost |-> 0, errors |-> 0,
            reply |-> <<>>, seen_open |-> FALSE, invoked |-> <<>>,
            msg_id |-> None, turns_skipped |-> 0, voted_for |-> None,
            prompt |-> <<>>, first_response |-> TRUE, spins |-> 0,
            is_typing |-> FALSE]

Start(S) ==
    /\ all_agents = S.all_agents
    /\ remaining_agent_ids = S.remaining
    /\ messages = S.messages
    /\ id_generator = S.idgen
    /\ voting = S.voting
    /\ vote_duration_timer = S.timer
    /\ game_ended = S.game_ended
    /\ game_won = S.game_won
    /\ who_talked = S.who_talked
    /\ talk_count = S.talk_count
    /\ pending_events = S.pending
    /\ llm_agent_ids = S.llm_agent_ids
    /\ chat_loop = S.chat_loop
    /\ pause_loop = FALSE
    /\ agent_turn = [x \in S.llm_agent_ids |-> NewTurn]
    /\ background_worker = TRUE
    /\ allocated = S.allocated
    /\ appended = S.appended
    /\ sent = <<>>
    /\ budget = NoBudget

Init ==
    /\ your_agent_id = "b"
    /\ \E ids \in AgentSets : Start(Opening(ids))

Assign(S, b) ==
    /\ all_agents' = S.all_agents
    /\ remaining_agent_ids' = S.remaining
    /\ messages' = S.messages
    /\ id_generator' = S.idgen
    /\ voting' = S.voting
    /\ vote_duration_timer' = S.timer
    /\ game_ended' = S.game_ended
    /\ game_won' = S.game_won
    /\ who_talked' = S.who_talked
    /\ talk_count' = S.talk_count
    /\ pending_events' = S.pending
    /\ llm_agent_ids' = S.llm_agent_ids
    /\ chat_loop' = S.chat_loop
    /\ pause_loop' = (pause_loop /\ S.chat_loop)
    /\ allocated' = S.allocated
    /\ appended' = S.appended
    /\ budget' = b
    /\ UNCHANGED your_agent_id

\* stop_agents cancels the task of every agent it takes off _llm_agent_ids;
\* terminate_agent takes the agent off the typing indicator, and the end of
\* the game clears the indicator
Cancelled(turns, S) ==
    [x \in DOMAIN turns |->
        IF x \in S.llm_agent_ids THEN turns[x]
        ELSE [turns[x] EXCEPT !.at = "ended", !.is_typing = FALSE]]

\* no task is in a loop without a suspension point: such a task keeps the
\* event loop, and no other task or handler runs
LoopFree == \A x \in DOMAIN agent_turn : agent_turn[x].spins = 0

\* the state after a handler that is no step of an agent's turn and no tick of
\* the worker; the chat screen cancels the worker when the game ends
Apply(S, b) ==
    /\ Assign(S, b)
    /\ background_worker' = (background_worker /\ ~S.game_ended)
    /\ agent_turn' = Cancelled(agent_turn, S)

Commit(S, b) ==
    /\ UNCHANGED sent
    /\ Apply(S, b)

\* a send_message call: what was passed, the id it returned, and whether the
\* sender was a remaining agent when it was made
SendCall(sent_by, sent_by_you, sent_to) ==
    [sent_by |-> sent_by, sent_by_you |-> sent_by_you, sent_to |-> sent_to,
     id |-> ChatMessageIDGenerator_next(id_generator).id,
     alive |-> sent_by \in remaining_agent_ids]

(***************************************************************************)
(* The callers.  The human acts through the chat screen, under its own     *)
(* agent id or any other (a selection made before that agent was           *)
(* terminated stays in the widget until the list is refreshed); an LLM     *)
(* agent acts from its task, which runs while it is in llm_agent_ids.      *)
(* The screen disables its inputs and every task is cancelled when the     *)
(* game ends, so no call is made after that.                               *)
(***************************************************************************)
AgentIds == DOMAIN all_agents

\* the agents the human acts as: its own and one other
ActsAs == {your_agent_id, "c"}
\* the agents whose task gets to send a message
Senders == {"a"}
\* the agents that get voted for: the human's and one other
Candidates == {your_agent_id, "c"}

\* what an LLM response may carry: a recipient (None is the whole chat), and for
\* a public message a suspect with no confidence, or with one below or above
\* the threshold
Responses == {<<to, None, <<>> >> : to \in {None, "b", "d", Foreign}}
                \cup {<<None, "b", cf>> : cf \in {<<>>, <<40>>, <<90>>}}

\* str.lower on the ids written here
Lower(id) == IF \E x \in AllIds : Upper[x] = id
             THEN CHOOSE x \in AllIds : Upper[x] = id
             ELSE id

\* _AllowedIDsMixin.set_allowed_ids, as __update_response_model_allowed_ids
\* calls it: the LLM agents and the human's agent
allowed_ids(llm_ids) == {Lower(x) : x \in llm_ids \cup {your_agent_id}}

\* _AllowedIDsMixin.validate_agent_id: whether it returns, the id as it came
validate_agent_id(allowed, agent_id) == allowed # {} /\ Lower(agent_id) \in allowed

\* whether LLMResponseModel takes these fields
LLMResponseModel_accepts(allowed, send_to, start_a_vote, voting_for) ==
    /\ send_to # None => validate_agent_id(allowed, send_to)
    /\ voting_for # None => validate_agent_id(allowed, voting_for)
    /\ ~(start_a_vote /\ voting_for = None)

Tampers(by, by_you) == by_you /\ by # your_agent_id

\* the budget after a call of kind "what" ("" for a kind without a bound of its own)
Spend(what, by, by_you) ==
    [x \in DOMAIN budget |->
        budget[x] + (IF x = what \/ x = "calls" THEN 1 ELSE 0)
                  + (IF x = "tamper" /\ Tampers(by, by_you) THEN 1 ELSE 0)]

\* a handler runs once the add_event coroutines scheduled before it have run
MayRun == /\ ~game_ended
          /\ budget.calls < MaxCalls
          /\ pending_events = <<>>

MayCall(by, by_you) == MayRun /\ (Tampers(by, by_you) => budget.tamper < MaxTamper)

\* the human types a message and sends it as "by" to "to"
HumanSend ==
    \E by \in ActsAs, to \in {None, "a"}, text \in SendTexts, phrase \in NotifyMsgs :
        /\ MayCall(by, TRUE)
        /\ budget.sends < MaxSends
        /\ Apply(send_message(Cur, text, by, TRUE, to, None, <<>>, phrase),
                 Spend("sends", by, TRUE))
        /\ sent' = Append(sent, SendCall(by, TRUE, to))

\* an agent's task applies the message of a response
AgentSend ==
    \E by \in Senders \cap llm_agent_ids, r \in Responses,
       text \in SendTexts, phrase \in NotifyMsgs :
        /\ MayCall(by, FALSE)
        /\ budget.sends < MaxSends
        /\ LLMResponseModel_accepts(allowed_ids(llm_agent_ids), r[1], FALSE, None)
        /\ Apply(send_message(Cur, text, by, FALSE, r[1], r[2], r[3], phrase),
                 Spend("sends", by, FALSE))
        /\ sent' = Append(sent, SendCall(by, FALSE, r[1]))

\* the messages the modify screen lists: those in some agent's msg_ids
Editable == {i \in 1..Len(messages) :
                \E x \in AgentIds : messages[i].id \in all_agents[x].msg_ids}

\* the modify screen is the one caller of edit_message and delete_message
EditMessage ==
    \E i \in Editable, text \in EditTexts :
        /\ MayRun
        /\ budget.edits < MaxEdits
        /\ LET S == edit_message(Cur, messages[i].id, text, TRUE)
           IN IF S = Cur THEN UNCHANGED vars
              ELSE Commit(S, Spend("edits", your_agent_id, TRUE))

DeleteMessage ==
    \E i \in Editable :
        /\ MayRun
        /\ budget.edits < MaxEdits
        /\ LET S == delete_message(Cur, messages[i].id, TRUE)
           IN IF S = Cur THEN UNCHANGED vars
              ELSE Commit(S, Spend("edits", your_agent_id, TRUE))

\* the human confirms the vote screen, voting as "by" for "for"
HumanVote ==
    \E by \in ActsAs, for \in Candidates :
        /\ MayCall(by, TRUE)
        /\ LET S == VotingWidget_vote(Cur, by, for)
           IN IF S = Cur THEN UNCHANGED vars
              ELSE /\ start_voting_starts(Cur) => budget.rounds < MaxRounds
                   /\ Commit(S, Spend(IF start_voting_starts(Cur) THEN "rounds" ELSE "", by, TRUE))

\* an agent's task applies the vote of a response; start_a_vote comes with a
\* voting_for, which names a candidate or no agent at all
AgentVote ==
    \E by \in llm_agent_ids, start_a_vote \in BOOLEAN, voting_for \in Candidates \cup {Foreign} :
        /\ MayCall(by, FALSE)
        /\ start_a_vote => by \in Senders
        /\ LET S == agent_loop_vote(Cur, by, start_a_vote, voting_for)
           IN IF S = Cur THEN UNCHANGED vars
              ELSE /\ S.voting.started_by # voting.started_by => budget.rounds < MaxRounds
                   /\ Commit(S, Spend(IF S.voting.started_by # voting.started_by
                                      THEN "rounds" ELSE "", by, FALSE))

\* the state after a tick of background_worker, which leaves its loop on any
\* exception and is cancelled by the chat screen when the game ends
AfterTick(S, b) ==
    /\ Assign(S, b)
    /\ background_worker' = (~S.raised /\ ~S.game_ended)
    /\ agent_turn' = Cancelled(agent_turn, S)
    /\ UNCHANGED sent

\* background_worker wakes up after "elapsed"
Tick ==
    \E elapsed \in 1..MaxElapsed :
        /\ MayRun
        /\ background_worker
        /\ LET S == background_tick(Cur, elapsed)
           IN IF S = Cur THEN UNCHANGED vars
              ELSE AfterTick(S, Spend("", your_agent_id, FALSE))

\* the event loop runs the oldest scheduled add_event
RunAddEvent ==
    /\ pending_events # <<>>
    /\ LoopFree
    /\ LET S == ChatMessageHistory_add([Cur EXCEPT !.pending = Tail(@)], Head(pending_events))
       IN Commit(S, budget)

Next == \/ HumanSend \/ AgentSend \/ EditMessage \/ DeleteMessage
        \/ HumanVote \/ AgentVote \/ Tick \/ RunAddEvent

Spec == Init /\ [][Next]_vars

(***************************************************************************)
(* A long chat: one agent keeps talking and the human steps in now and     *)
(* then, until every chat log has taken more entries than it holds.  The   *)
(* talker is nudged about the silent human once the tracker window is full.*)
(***************************************************************************)
\* the messages of the talker in one behaviour of SpecLog
MaxLogSends == max_lookback_messages + MaxOverflow

\* the phrase drawn for every nudge of a long chat
LogPhrase == CHOOSE p \in NotifyMsgs : TRUE

\* the human and the worker step in as the chat opens or once a chat log is full
Eventful ==
    \/ budget.sends <= MaxAsides
    \/ \E x \in AgentIds : Len(all_agents[x].chat_logs) = max_lookback_messages

MayStepIn == ~game_ended /\ pending_events = <<>> /\ budget.calls < MaxAsides /\ Eventful

StepIn(by, by_you) == [budget EXCEPT !.calls = @ + 1,
                                     !.tamper = IF Tampers(by, by_you) THEN @ + 1 ELSE @]

\* the talker's task sends one more public message
LogChatter ==
    \E by \in Senders \cap llm_agent_ids, text \in SendTexts :
        /\ ~game_ended
        /\ pending_events = <<>>
        /\ budget.sends < MaxLogSends
        /\ Apply(send_message(Cur, text, by, FALSE, None, None, <<>>, LogPhrase),
                 [budget EXCEPT !.sends = @ + 1])
        /\ sent' = Append(sent, SendCall(by, FALSE, None))

\* the human sends a public message, in its own name or in another
LogHumanSend ==
    \E by \in ActsAs, text \in SendTexts :
        /\ MayStepIn
        /\ Apply(send_message(Cur, text, by, TRUE, None, None, <<>>, LogPhrase),
                 StepIn(by, TRUE))
        /\ sent' = Append(sent, SendCall(by, TRUE, None))

\* the human edits or deletes the latest message of the chat
LogModify ==
    \E edit \in BOOLEAN, text \in EditTexts :
        /\ MayStepIn
        /\ Len(messages) \in Editable
        /\ LET id == messages[Len(messages)].id
               S == IF edit THEN edit_message(Cur, id, text, TRUE)
                    ELSE delete_message(Cur, id, TRUE)
           IN Commit(S, StepIn(your_agent_id, TRUE))

\* the human votes, in its own name or in another, which opens a round
LogHumanVote ==
    \E by \in ActsAs, for \in Candidates :
        /\ MayStepIn
        /\ start_voting_starts(Cur)
        /\ Commit(VotingWidget_vote(Cur, by, for), StepIn(by, TRUE))

\* background_worker wakes up
LogTick == Eventful /\ Tick

NextLog == LogChatter \/ LogHumanSend \/ LogModify \/ LogHumanVote \/ LogTick \/ RunAddEvent

SpecLog == Init /\ [][NextLog]_vars

C2_EndVote ==
    [][(voting.vote_has_started /\ ~voting'.vote_has_started) =>
        LET results == voting'.result_map
            n == Cardinality(remaining_agent_ids)
            total == SumOver(results, DOMAIN results)
            top == {x \in DOMAIN results : \A y \in DOMAIN results : results[y] <= results[x]}
        IN remaining_agent_ids' =
            IF total = 0 \/ 2 * total < n \/ Cardinality(top) # 1
            THEN remaining_agent_ids
            ELSE remaining_agent_ids \ top]_vars

\* a round was closed and its winner removed while another agent had votes too
C2_Witness ==
    /\ ~voting.vote_has_started
    /\ Cardinality(DOMAIN voting.result_map) > 1
    /\ remaining_agent_ids # AgentIds

\* C3: every agent is counted once in a round: the tallies are those of the
\* recorded votes, an agent that has voted cannot vote, and a further vote()
\* in its name leaves _vote_map and _result_map as they are
C3_OneVoteEach ==
    /\ \A t \in DOMAIN voting.result_map :
            voting.result_map[t] =
                Cardinality({a \in DOMAIN voting.vote_map : voting.vote_map[a] = t})
    /\ \A a \in DOMAIN voting.vote_map :
        /\ voting.vote_map[a] \in DOMAIN voting.result_map
        /\ ~AgentVoting_can_vote(voting, a)
        /\ \A t \in AgentIds \cup {Foreign}, by_you \in BOOLEAN :
                LET S == vote(Cur, a, t, by_you)
                IN /\ S.voting.vote_map = voting.vote_map
                   /\ S.voting.result_map = voting.result_map

\* a round is open, two agents have voted (one of them for itself) and
\* further votes are still awaited
C3_Witness ==
    /\ voting.vote_has_started
    /\ Cardinality(DOMAIN voting.vote_map) = 2
    /\ \E a \in DOMAIN voting.vote_map : voting.vote_map[a] = a

C5_StartWhileOpen ==
    voting.vote_has_started =>
        \A by \in AgentIds \cup {Foreign}, by_you \in BOOLEAN :
            start_vote(Cur, by, by_you) = Cur

\* a round is open with a vote cast and part of its countdown gone
C5_Witness ==
    /\ voting.vote_has_started
    /\ DOMAIN voting.vote_map # {}
    /\ vote_duration_timer < VoteDuration
    /\ vote_duration_timer > 0

(***************************************************************************)
(* Termination                                                             *)
(***************************************************************************)
\* C6: terminate_agent(x) removes x; the game ends exactly when x is the
\* human's agent or two agents remain afterwards, and it is won exactly when
\* two remain and x is not the human's; otherwise the game goes on and only
\* the task of x is cancelled
C6_Terminate ==
    [][remaining_agent_ids' # remaining_agent_ids =>
        \E x \in remaining_agent_ids :
            LET two == Cardinality(remaining_agent_ids') = 2
            IN /\ remaining_agent_ids' = remaining_agent_ids \ {x}
               /\ game_ended' = (x = your_agent_id \/ two)
               /\ game_won' = (x # your_agent_id /\ two)
               /\ IF game_ended'
                  THEN llm_agent_ids' = {} /\ ~chat_loop'
                  ELSE llm_agent_ids' = llm_agent_ids \ {x} /\ chat_loop']_vars

\* an agent was removed from a game of four, which goes on for the other tasks
C6_Witness ==
    /\ Cardinality(remaining_agent_ids) = 3
    /\ Cardinality(AgentIds) = 4
    /\ ~game_ended
    /\ Cardinality(llm_agent_ids) = 2

(***************************************************************************)
(* Messages                                                                *)
(***************************************************************************)
\* C7: a deleted message stays as it is: no later edit or delete changes its
\* text, its flags or its history_log
C7_DeletedIsFinal ==
    [][\A i \in 1..Len(messages) : messages[i].deleted => messages'[i] = messages[i]]_vars

\* both calls of the modify screen took effect, the second on a message the
\* first had deleted: its history_log has the one entry of the deletion
C7_Witness ==
    /\ budget.edits = 2
    /\ Len(sent) = 1
    /\ \E i \in 1..Len(messages) :
            messages[i].deleted /\ Len(messages[i].history_log) = 1

\* the message ids in the chat log of an agent
LogIds(x) == {e.msg : e \in {f \in Range(all_agents[x].chat_logs) : f.is_id}}

\* the message ids in the DM index of an agent
DmIds(x) ==
    UNION ({all_agents[x].dm_msg_ids_recv[k] : k \in DOMAIN all_agents[x].dm_msg_ids_recv}
            \cup {all_agents[x].dm_msg_ids_sent[k] : k \in DOMAIN all_agents[x].dm_msg_ids_sent})

\* C9: the id of a sent message is in the chat log of every remaining agent
\* when the message is public, and in the chat logs of its sender and its
\* recipient only when it is a DM, whose id is in no third agent's DM index
C9_FanOut ==
    \A i \in 1..Len(messages) :
        LET m == messages[i]
        IN ~m.is_announcement =>
            IF m.sent_to = None
            THEN \A x \in remaining_agent_ids : m.id \in LogIds(x)
            ELSE /\ {x \in AgentIds : m.id \in LogIds(x)} = {m.sent_by, m.sent_to}
                 /\ {x \in AgentIds : m.id \in DmIds(x)} \subseteq {m.sent_by, m.sent_to}

\* whether a chat log entry is the note of create_sent_by_human_message
IsSentByHumanNote(e) ==
    /\ e.role = RoleSystem
    /\ ~e.is_id
    /\ \E text \in SendTexts : e.msg = create_sent_by_human_message([msg |-> text])

NotesIn(log) == Cardinality({j \in 1..Len(log) : IsSentByHumanNote(log[j])})

SentByHumanNotes(x) == NotesIn(all_agents[x].chat_logs)

\* the "sent via you" notes that a send_message call made now would add to the
\* chat log of each agent
NotesAdded(sent_by, sent_by_you) ==
    LET S == send_message(Cur, "hi", sent_by, sent_by_you, None, None, <<>>, LogPhrase)
    IN [x \in AgentIds |-> NotesIn(S.all_agents[x].chat_logs) - SentByHumanNotes(x)]

\* C10 as stated: a send_message call of the human in the name of another
\* agent c puts one "sent via you" note in the chat log of c, and no other
\* call puts one anywhere: so it is for the calls made so far and for a call
\* made now
C10_NotePerSendAs ==
    /\ \A x \in AgentIds :
        SentByHumanNotes(x) =
            Cardinality({k \in 1..Len(sent) :
                sent[k].sent_by_you /\ sent[k].sent_by = x /\ x # your_agent_id})
    /\ \A c \in ActsAs \ {your_agent_id} :
        NotesAdded(c, TRUE) = [x \in AgentIds |-> IF x = c THEN 1 ELSE 0]

\* C10, amended: a send_message call of the human in the name of another
\* agent c that is still a remaining agent puts one "sent via you" note in the
\* chat log of c, and no other call puts one anywhere: not a send in the name
\* of a terminated agent, which add_message drops, not a send of the human in
\* its own name, not a send of an LLM agent; so it is for the calls made so
\* far and for a call made now
C10_NotePerSendAsRemaining ==
    /\ \A x \in AgentIds :
        SentByHumanNotes(x) =
            Cardinality({k \in 1..Len(sent) :
                /\ sent[k].sent_by_you /\ sent[k].sent_by = x /\ x # your_agent_id
                /\ sent[k].alive})
    /\ \A c \in ActsAs \ {your_agent_id} :
        NotesAdded(c, TRUE) =
            [x \in AgentIds |-> IF x = c /\ c \in remaining_agent_ids THEN 1 ELSE 0]

\* the human has sent a message in the name of a remaining agent, which got
\* its note, and an agent has been terminated, in whose name a send adds none
C10_Witness ==
    /\ \E k \in 1..Len(sent) :
        /\ sent[k].sent_by_you
        /\ sent[k].sent_by # your_agent_id
        /\ sent[k].alive
        /\ SentByHumanNotes(sent[k].sent_by) = 1
    /\ remaining_agent_ids # AgentIds

(***************************************************************************)
(* Chat logs                                                               *)
(***************************************************************************)
Min(a, b) == IF a <= b THEN a ELSE b

\* C8: a chat log never holds more than max_lookback_messages entries; a step
\* that appends k entries to a log leaves it with the newest of its old
\* entries, in their order, followed by the new ones: a full log gives up its
\* oldest entries and no others
C8_BoundedLog ==
    [][\A x \in AgentIds :
        LET old == all_agents[x].chat_logs
            new == all_agents'[x].chat_logs
            k == appended'[x] - appended[x]
            kept == Min(Len(old), max_lookback_messages - k)
        IN /\ Len(old) <= max_lookback_messages
           /\ Len(new) = Min(Len(old) + k, max_lookback_messages)
           /\ \A j \in 1..kept : new[j] = old[Len(old) - kept + j]]_vars

\* a chat log has taken more entries than it holds and is full
C8_Witness ==
    \E x \in AgentIds :
        /\ appended[x] > max_lookback_messages
        /\ Len(all_agents[x].chat_logs) = max_lookback_messages
        /\ \E y \in AgentIds : SentByHumanNotes(y) > 0

(***************************************************************************)
(* Tampering notices                                                       *)
(***************************************************************************)
\* the chat logs after an edit_message (is_edit) or delete_message call made
\* now on the message at index i
LogsAfterModify(i, is_edit, by_you) ==
    LET S == IF is_edit THEN edit_message(Cur, messages[i].id, "edited", by_you)
             ELSE delete_message(Cur, messages[i].id, by_you)
    IN [x \in AgentIds |-> S.all_agents[x].chat_logs]

\* the line that tells of what the message at index i was before the call
TamperLine(i, is_edit) ==
    LogEntry(RoleSystem,
             "[IMPORTANT] The human has " \o (IF is_edit THEN "EDITED" ELSE "DELETED")
                 \o " your previous message -- '" \o messages[i].msg \o "'"
                 \o (IF is_edit THEN " to 'edited'" ELSE ""),
             FALSE)

\* C11: an edit or delete by the human of a message sent under another agent's
\* id appends to that agent's chat log one system line with the content the
\* message had just before the call, and changes no other log; an edit or
\* delete of a message sent under the human's id, or one not made by the human,
\* changes no log
C11_TamperLine ==
    \A i \in Editable, is_edit \in BOOLEAN :
        LET by == messages[i].sent_by
            logs == [x \in AgentIds |-> all_agents[x].chat_logs]
        IN /\ LogsAfterModify(i, is_edit, TRUE) =
                IF by = your_agent_id THEN logs
                ELSE [logs EXCEPT ![by] = Append(@, TamperLine(i, is_edit))]
           /\ LogsAfterModify(i, is_edit, FALSE) = logs

(***************************************************************************)
(* AgentVoting on its own: any sequence of its operations, with the agents *)
(* of the game as voters and candidates                                    *)
(***************************************************************************)
OtherVars == <<your_agent_id, all_agents, remaining_agent_ids, messages, id_generator,
               vote_duration_timer, game_ended, game_won, who_talked, talk_count,
               pending_events, llm_agent_ids, chat_loop, pause_loop, agent_turn,
               background_worker, allocated, appended, sent, budget>>

VotingStart ==
    \E started_by \in AgentIds :
        /\ voting' = AgentVoting_start_vote(voting, started_by)
        /\ UNCHANGED OtherVars

VotingVote ==
    \E by_agent \in AgentIds, for_agent \in AgentIds :
        /\ voting' = AgentVoting_vote(voting, by_agent, for_agent)
        /\ UNCHANGED OtherVars

\* end_vote asserts that a round is open
VotingEnd ==
    /\ voting.vote_has_started
    /\ voting' = AgentVoting_end_vote(voting)
    /\ UNCHANGED OtherVars

VotingReset ==
    /\ voting' = AgentVoting_reset(voting)
    /\ UNCHANGED OtherVars

NextVoting == VotingStart \/ VotingVote \/ VotingEnd \/ VotingReset

SpecVoting == Init /\ [][NextVoting]_vars

\* C12: the counts of _result_map add up to the number of entries of _vote_map
C12_TallyMatchesVotes ==
    SumOver(voting.result_map, DOMAIN voting.result_map) = Cardinality(DOMAIN voting.vote_map)

(***************************************************************************)
(* A vote screen left open.  action_start_a_vote refuses to open the vote  *)
(* screen once the game has ended, but a screen that is open when an agent *)
(* is terminated or the game ends stays on the screen stack, under the     *)
(* game-ended screen, with its list of agents as it was; closing the       *)
(* game-ended screen gives it back to the human, whose confirmation calls  *)
(* start_vote and vote as from any vote screen.  It is the last call of    *)
(* the behaviour here.                                                     *)
(***************************************************************************)
StaleHumanVote ==
    \E by \in ActsAs, for \in Candidates :
        /\ pending_events = <<>>
        /\ budget.calls <= MaxCalls
        /\ remaining_agent_ids # AgentIds
        /\ LET S == VotingWidget_vote(Cur, by, for)
           IN /\ S # Cur
              /\ Commit(S, [Spend("", by, TRUE) EXCEPT !.calls = MaxCalls + 1])

NextLate == Next \/ StaleHumanVote

SpecLate == Init /\ [][NextLate]_vars

\* C13: the game is never ended with a voting round open
C13_NoRoundOpenOnceEnded == ~(game_ended /\ voting.vote_has_started)

(***************************************************************************)
(* Setting a game up.  The new-game screen works on a GameState that was   *)
(* loaded from a saved game, in which the human has an agent id, or on a   *)
(* fresh one: it may create the agents anew, reset the state and assign    *)
(* the human an agent; remove_agent is what terminate_agent calls.         *)
(***************************************************************************)
\* the ids NameGenerator.generate may hand out: distinct names, min_agent_count
\* at least
NameSets == {ids \in SUBSET AllIds : Cardinality(ids) >= min_agent_count}

\* GameState.initialize_agents
initialize_agents(S, ids) ==
    [S EXCEPT !.all_agents = [x \in ids |-> NewAgent],
              !.remaining = ids,
              !.talk_count = [x \in ids |-> IF x \in DOMAIN @ THEN @[x] ELSE 0],
              !.appended = [x \in ids |-> 0]]

\* Agent.reset
Agent_reset(agent) ==
    [agent EXCEPT !.msg_ids = {}, !.dm_msg_ids_recv = [x \in {} |-> {}],
                  !.dm_msg_ids_sent = [x \in {} |-> {}], !.chat_logs = <<>>]

\* GameState.reset
GameState_reset(S) ==
    [S EXCEPT !.game_ended = FALSE, !.game_won = FALSE, !.messages = <<>>,
              !.remaining = DOMAIN S.all_agents,
              !.voting = AgentVoting_reset(@),
              !.idgen = 0,
              !.all_agents = [x \in DOMAIN @ |-> Agent_reset(@[x])]]

\* GameStateManager.create_agents
CreateAgents ==
    \E ids \in NameSets :
        /\ Apply(initialize_agents(Cur, ids), budget)
        /\ UNCHANGED sent

\* assign_agent_id_to_user asserts that the id is a key of _all_agents
AssignAgentId ==
    \E agent_id \in AgentIds :
        /\ your_agent_id' = agent_id
        /\ UNCHANGED <<all_agents, remaining_agent_ids, messages, id_generator, voting,
                       vote_duration_timer, game_ended, game_won, who_talked, talk_count,
                       pending_events, llm_agent_ids, chat_loop, pause_loop, agent_turn,
                       background_worker, allocated, appended, sent, budget>>

\* remove_agent asserts that the agent is a remaining one
RemoveAgent ==
    \E agent_id \in remaining_agent_ids :
        /\ Apply([Cur EXCEPT !.remaining = @ \ {agent_id}], budget)
        /\ UNCHANGED sent

Reset ==
    /\ Apply(GameState_reset(Cur), budget)
    /\ UNCHANGED sent

NextSetup == CreateAgents \/ AssignAgentId \/ RemoveAgent \/ Reset

SpecSetup == Init /\ [][NextSetup]_vars

\* C14: the remaining agent ids are keys of _all_agents, and so is the agent id
\* of the human once it has one
C14_IdsAreAgents ==
    /\ remaining_agent_ids \subseteq DOMAIN all_agents
    /\ your_agent_id # "" => your_agent_id \in DOMAIN all_agents

(***************************************************************************)
(* Terminated agents                                                       *)
(***************************************************************************)
\* C15: once an agent is terminated, no step adds a message sent by it to the
\* history, records a vote cast by it, or opens a voting round started by it
C15_TerminatedCannotAct ==
    [][LET terminated == AgentIds \ remaining_agent_ids
       IN /\ \A i \in (Len(messages) + 1)..Len(messages') :
                messages'[i].sent_by \notin terminated
          /\ \A x \in DOMAIN voting'.vote_map :
                (x \notin DOMAIN voting.vote_map \/ voting'.started_by # voting.started_by)
                    => x \notin terminated
          /\ (voting'.started_by # voting.started_by
                \/ (~voting.vote_has_started /\ voting'.vote_has_started))
                    => voting'.started_by \notin terminated]_vars

(***************************************************************************)
(* Applying a message                                                      *)
(***************************************************************************)
\* C16: whenever another task can run, and after every send_message call,
\* returned or raised, a message of an agent that is in the history is in the
\* msg_ids of its sender and in the chat logs of its sender and of all its
\* recipients: every remaining agent for a public message, the agent it was
\* sent to for a DM
C16_AppliedWhole ==
    \A i \in 1..Len(messages) :
        LET m == messages[i]
        IN ~m.is_announcement =>
            /\ m.id \in all_agents[m.sent_by].msg_ids
            /\ m.id \in LogIds(m.sent_by)
            /\ \A x \in AgentIds :
                (IF m.sent_to = None THEN x \in remaining_agent_ids ELSE x = m.sent_to)
                    => m.id \in LogIds(x)

(***************************************************************************)
(* An agent's turns.  agent_loop sleeps, asks generate_response for a      *)
(* response and applies a valid one: the message first and, after a pause  *)
(* in which other tasks run, the vote.  generate_response awaits the LLM   *)
(* client once per attempt; what comes back is an input: no choices, a     *)
(* text that does not parse or validate, a valid response, or an exception *)
(* of the client.                                                          *)
(***************************************************************************)
\* the agents whose turns are followed
TurnTakers == {"a", "c"} \cap llm_agent_ids

\* what a valid response asks for at the end of the turn: start_a_vote, voting_for
TurnVotes == {<<FALSE, None>>, <<TRUE, "c">>}

\* the loop condition of generate_response
tries_left_one_more(tries) == tries < max_model_retries + 1

tries_left(tries) == tries < max_model_retries

\* the top of generate_response's loop: one more call, or None is returned and
\* agent_loop continues with its next turn
generate_response_attempt(turn) ==
    IF tries_left(turn.tries)
    THEN [turn EXCEPT !.at = "llm", !.tries = @ + 1]
    ELSE [turn EXCEPT !.at = "sleep", !.turns = @ + 1, !.lost = @ + 1]

\* a step of a turn that calls nothing of the game state
TurnStep(a, turn) ==
    /\ Assign(Cur, budget)
    /\ agent_turn' = [agent_turn EXCEPT ![a] = turn]
    /\ UNCHANGED <<background_worker, sent>>

\* LLMPromptGenerator.generate_input_prompt: the part of the prompt that is
\* about the vote
generate_input_prompt(agent_id, vote_has_started, started_by, voted_for) ==
    IF vote_has_started
    THEN IF voted_for = None
         THEN <<"A VOTE IS IN PROGRESS. Started by " \o started_by
                    \o ". Vote for the agent you find most suspicious or hate the most.">>
         ELSE <<"A VOTE IS IN PROGRESS. Started by " \o started_by
                    \o ". You have already voted for " \o voted_for>>
    ELSE <<"You may start a vote ONLY IF you strongly suspect or dislike someone.">>

\* the prompt agent_loop asks with: the one built before the loop while no
\* round is open, else one built now with the loop's own voted_for
input_prompt(turn, agent_id, v) ==
    generate_input_prompt(agent_id, v.vote_has_started, v.started_by, turn.voted_for)

\* a loop that skips once more than max_turn_skips
skips_turn_one_more(agent, turn) ==
    ~can_reply(agent, turn.msg_id) /\ turn.turns_skipped < max_turn_skips + 1

\* whether agent_loop skips this iteration
skips_turn(agent, turn) ==
    ~can_reply(agent, turn.msg_id) /\ turn.turns_skipped < max_turn_skips

\* agent_loop wakes up with nothing to reply to and goes back to sleep
SkipTurn ==
    \E a \in TurnTakers :
        /\ ~game_ended
        /\ agent_turn[a].at = "sleep"
        /\ LoopFree
        /\ ~pause_loop
        /\ skips_turn(all_agents[a], agent_turn[a])
        /\ TurnStep(a, [agent_turn[a] EXCEPT !.turns_skipped = @ + 1])

\* agent_loop wakes up, shows the agent as typing and calls generate_response
BeginTurn ==
    \E a \in TurnTakers :
        /\ ~game_ended
        /\ agent_turn[a].at = "sleep"
        /\ agent_turn[a].turns < MaxTurns
        /\ LoopFree
        /\ ~pause_loop
        /\ ~skips_turn(all_agents[a], agent_turn[a])
        /\ TurnStep(a, generate_response_attempt(
                            [agent_turn[a] EXCEPT !.tries = 0, !.turns_skipped = 0,
                                                  !.seen_open = voting.vote_has_started,
                                                  !.prompt = input_prompt(agent_turn[a], a, voting),
                                                  !.first_response = FALSE,
                                                  !.is_typing = TRUE]))

\* the client returns no choices, or a text that LLMResponseParser rejects
ReplyRejected ==
    \E a \in TurnTakers :
        /\ ~game_ended
        /\ agent_turn[a].at = "llm"
        /\ LoopFree
        /\ TurnStep(a, generate_response_attempt(agent_turn[a]))

\* the client raises: nothing in generate_response or agent_loop catches it
TransportError ==
    \E a \in TurnTakers :
        /\ ~game_ended
        /\ agent_turn[a].at = "llm"
        /\ LoopFree
        /\ TurnStep(a, [agent_turn[a] EXCEPT !.at = "ended", !.errors = @ + 1])

\* the client returns a valid response and agent_loop sends its message and
\* takes the agent off the typing indicator; an exception of send_message ends
\* the task
ValidReply ==
    \E a \in TurnTakers, r \in Responses, text \in SendTexts, phrase \in NotifyMsgs,
       v \in TurnVotes :
        /\ MayCall(a, FALSE)
        /\ budget.sends < MaxSends
        /\ agent_turn[a].at = "llm"
        /\ LoopFree
        /\ LLMResponseModel_accepts(allowed_ids(llm_agent_ids), r[1], v[1], v[2])
        /\ LET S == send_message(Cur, text, a, FALSE, r[1], r[2], r[3], phrase)
           IN /\ Assign(S, Spend("sends", a, FALSE))
              /\ agent_turn' = [agent_turn EXCEPT ![a] =
                                   IF S.raised THEN [@ EXCEPT !.at = "ended"]
                                   ELSE [@ EXCEPT !.at = "voting", !.reply = v,
                                            !.msg_id = ChatMessageIDGenerator_next(id_generator).id,
                                            !.is_typing = FALSE]]
        /\ sent' = Append(sent, SendCall(a, FALSE, r[1]))
        /\ UNCHANGED background_worker

\* "vote_started" as the loop read it before it asked for the response
vote_started_as_seen(S, turn) == turn.seen_open

\* "vote_started" as the loop reads it again after the pause
vote_started_now(S, turn) == S.voting.vote_has_started

\* after the pause agent_loop starts the round and casts the vote of the
\* response, and the turn is over
ApplyVote ==
    \E a \in TurnTakers :
        /\ MayCall(a, FALSE)
        /\ agent_turn[a].at = "voting"
        /\ LoopFree
        /\ LET r == apply_vote_of_response(Cur, a, vote_started_now(Cur, agent_turn[a]),
                                           agent_turn[a].reply[1], agent_turn[a].reply[2])
               S == r.S
               starts == S.voting.started_by # voting.started_by
           IN /\ starts => budget.rounds < MaxRounds
              /\ Assign(S, IF S = Cur THEN budget
                           ELSE Spend(IF starts THEN "rounds" ELSE "", a, FALSE))
              /\ background_worker' = (background_worker /\ ~S.game_ended)
              /\ agent_turn' = [Cancelled(agent_turn, S) EXCEPT ![a] =
                                   IF S.raised \/ a \notin S.llm_agent_ids
                                   THEN [@ EXCEPT !.at = "ended", !.invoked = r.invoked]
                                   ELSE [@ EXCEPT !.at = "sleep", !.turns = @ + 1,
                                                  !.reply = <<>>, !.invoked = r.invoked]]
        /\ UNCHANGED sent

NextTurn == \/ SkipTurn \/ BeginTurn \/ ReplyRejected \/ TransportError
            \/ ValidReply \/ ApplyVote \/ RunAddEvent

SpecTurn == Init /\ [][NextTurn]_vars

\* C17: a turn makes at most max_model_retries LLM calls, and the step in
\* which a turn is given up for want of a valid response comes after exactly
\* that many calls, sends no message, starts no round and casts no vote, and
\* leaves the agent's loop running for its next turn
C17_RetriesThenNoAction ==
    [][\A a \in DOMAIN agent_turn :
          /\ agent_turn'[a].tries <= max_model_retries
          /\ agent_turn'[a].lost > agent_turn[a].lost =>
                /\ agent_turn[a].tries = max_model_retries
                /\ messages' = messages
                /\ voting' = voting
                /\ sent' = sent
                /\ all_agents' = all_agents
                /\ agent_turn'[a].at = "sleep"
                /\ a \in llm_agent_ids']_vars

\* an agent that gave up one turn after max_model_retries calls is asking the
\* LLM again in its next turn
C17_Witness ==
    \E a \in DOMAIN agent_turn :
        /\ agent_turn[a].lost = 1
        /\ agent_turn[a].turns = 1
        /\ agent_turn[a].at = "llm"
        /\ sent = <<>>

\* C18: the step in which the LLM call of an agent's turn raises loses that
\* turn only: the turn ends as one without a response, the agent's loop is
\* still running and the agent is still one of the LLM agents, and the turns
\* of the other agents are where they were
C18_ErrorLosesOneTurn ==
    [][\A a \in DOMAIN agent_turn :
          agent_turn'[a].errors > agent_turn[a].errors =>
             /\ agent_turn'[a].at = "sleep"
             /\ agent_turn'[a].lost = agent_turn[a].lost + 1
             /\ a \in llm_agent_ids'
             /\ \A other \in DOMAIN agent_turn \ {a} :
                    agent_turn'[other] = agent_turn[other]]_vars

(***************************************************************************)
(* The worker keeps ticking.  background_worker sleeps a second and ticks, *)
(* for ever, and the event loop runs every coroutine it was handed: both   *)
(* steps are taken whenever they stay possible.  The ticks are not counted *)
(* against the calls of a behaviour.                                       *)
(***************************************************************************)
WorkerTick ==
    \E elapsed \in 1..MaxElapsed :
        /\ ~game_ended
        /\ pending_events = <<>>
        /\ background_worker
        /\ LET S == background_tick(Cur, elapsed)
           IN IF S = Cur THEN UNCHANGED vars ELSE AfterTick(S, budget)

NextLive == HumanVote \/ AgentVote \/ WorkerTick \/ RunAddEvent

\* ENABLED <<WorkerTick>>_vars: the worker runs, nothing is scheduled before
\* it, and the countdown is one that update_duration changes
TickEnabled ==
    /\ ~game_ended
    /\ pending_events = <<>>
    /\ background_worker
    /\ vote_duration_timer # 0

\* WF_vars(WorkerTick) with its ENABLED written out as TickEnabled
TickFairness == []<>(~TickEnabled) \/ []<><<WorkerTick>>_vars

SpecLive == /\ Init
            /\ [][NextLive]_vars
            /\ TickFairness
            /\ WF_vars(RunAddEvent)

\* C19: with the worker ticking, a round that is open is closed later on,
\* whether or not a vote is cast; and no tick leaves a round open whose
\* countdown has run out, so a round that is open has time left
C19_RoundsClose ==
    /\ [](voting.vote_has_started => vote_duration_timer > 0)
    /\ (voting.vote_has_started ~> ~voting.vote_has_started)

\* a round in which nobody voted has been closed, which only a tick does
C19_Witness ==
    /\ ~voting.vote_has_started
    /\ voting.started_by # None
    /\ DOMAIN voting.vote_map = {}
    /\ vote_duration_timer = 0

(***************************************************************************)
(* The worker and the wall clock.  A tick reads the time of day, which the *)
(* system may have set back since the worker noted the start time;         *)
(* update_duration asserts that it has not.                                *)
(***************************************************************************)
\* update_duration at a reading of the clock: the assertions come first
update_duration_at(S, before_start, elapsed) ==
    IF before_start THEN Raise(S) ELSE update_duration(S, elapsed)

\* one tick of background_worker at a reading of the clock
background_tick_at(S, before_start, elapsed) ==
    LET S1 == update_duration_at(S, before_start, elapsed)
    IN IF S1.raised THEN S1
       ELSE IF S1.voting.vote_has_started /\ vote_duration_timer_has_expired(S1)
       THEN end_vote(S1) ELSE S1

\* background_worker wakes up and reads the clock
ClockTick ==
    \E before_start \in BOOLEAN, elapsed \in 1..MaxElapsed :
        /\ MayRun
        /\ background_worker
        /\ LET S == background_tick_at(Cur, before_start, elapsed)
           IN IF S = Cur THEN UNCHANGED vars
              ELSE AfterTick(S, Spend("", your_agent_id, FALSE))

NextClock == \/ HumanSend \/ AgentSend \/ EditMessage \/ DeleteMessage
             \/ HumanVote \/ AgentVote \/ ClockTick \/ RunAddEvent

SpecClock == Init /\ [][NextClock]_vars

\* C20: while the game is running the worker is running: nothing but the
\* cancellation at the end of the game stops it, whatever a tick raises
C20_WorkerOutlivesErrors == ~game_ended => background_worker

(***************************************************************************)
(* Turns among other tasks: while an agent's request is in flight, and in  *)
(* the pause after its message, the human votes and the worker ticks.  The *)
(* requests are answered at the first attempt.                             *)
(***************************************************************************)
NextRace == \/ SkipTurn \/ BeginTurn \/ ValidReply \/ ApplyVote
            \/ HumanVote \/ Tick \/ RunAddEvent

SpecRace == Init /\ [][NextRace]_vars

GainedSinceLastSent(a) ==
    LET log == all_agents[a].chat_logs
    IN \/ agent_turn[a].msg_id = None
       \/ log = <<>>
       \/ log[Len(log)] # LogEntry(RoleAssistant, agent_turn[a].msg_id, TRUE)

\* C22: an iteration is skipped only with nothing gained since the loop's last
\* message and with fewer than max_turn_skips skips in a row, so after that
\* many the next iteration asks for a response; and an iteration that asks has
\* gained something or comes after max_turn_skips skips, and ends the run of
\* skips
C22_SkipsThenAsks ==
    [][\A a \in DOMAIN agent_turn :
          /\ agent_turn'[a].turns_skipped <= max_turn_skips
          /\ agent_turn'[a].turns_skipped > agent_turn[a].turns_skipped =>
                /\ ~GainedSinceLastSent(a)
                /\ agent_turn[a].turns_skipped < max_turn_skips
                /\ agent_turn'[a].at = "sleep"
          /\ (agent_turn[a].at = "sleep" /\ agent_turn'[a].at = "llm") =>
                /\ GainedSinceLastSent(a) \/ agent_turn[a].turns_skipped = max_turn_skips
                /\ agent_turn'[a].turns_skipped = 0
          /\ (agent_turn[a].at = "sleep" /\ GainedSinceLastSent(a)) =>
                agent_turn'[a].turns_skipped <= agent_turn[a].turns_skipped]_vars

\* an agent with nothing new in its log since its message is asking the LLM
\* again, max_turn_skips skipped iterations later
C22_Witness ==
    \E a \in DOMAIN agent_turn :
        /\ agent_turn[a].at = "llm"
        /\ agent_turn[a].turns = 1
        /\ agent_turn[a].msg_id # None
        /\ ~GainedSinceLastSent(a)

(***************************************************************************)
(* Validating a response                                                   *)
(***************************************************************************)
\* the ids a response may carry as send_to or voting_for
WrittenIds == AllIds \cup {Foreign, None}

\* C23: while the agents run, the allow-list is the remaining agents, and a
\* response that is accepted now names a remaining agent wherever it names
\* one, and does not ask for a round without voting
C23_AcceptedNamesRemaining ==
    (~game_ended /\ chat_loop) =>
        /\ allowed_ids(llm_agent_ids) = {Lower(x) : x \in remaining_agent_ids}
        /\ \A send_to \in WrittenIds, voting_for \in WrittenIds, start_a_vote \in BOOLEAN :
              LLMResponseModel_accepts(allowed_ids(llm_agent_ids), send_to, start_a_vote, voting_for)
                  => /\ send_to # None => send_to \in remaining_agent_ids
                     /\ voting_for # None => voting_for \in remaining_agent_ids
                     /\ ~(start_a_vote /\ voting_for = None)

(***************************************************************************)
(* The input prompt of a turn                                              *)
(***************************************************************************)
\* C24: a turn that begins with a round open asks with a prompt that names
\* who started the round and, for an agent whose vote is recorded in the
\* round, the agent it voted for; an agent that has not voted is told to vote
C24_PromptTellsVote ==
    [][\A a \in DOMAIN agent_turn :
          (agent_turn[a].at = "sleep" /\ agent_turn'[a].at = "llm"
                /\ voting.vote_has_started) =>
              agent_turn'[a].prompt =
                  generate_input_prompt(a, TRUE, voting.started_by,
                        IF a \in DOMAIN voting.vote_map THEN voting.vote_map[a] ELSE None)]_vars

(***************************************************************************)
(* The sender's own log                                                    *)
(***************************************************************************)
\* the state after remaining agent x sends a public message now, in its own
\* name
AfterPublicSend(x) ==
    send_message(Cur, "hi", x, x = your_agent_id, None, None, <<>>, LogPhrase)

\* the entries of a chat log that hold message id "id", by role
IdEntries(log, id, role) ==
    {i \in 1..Len(log) : log[i].is_id /\ log[i].msg = id /\ log[i].role = role}

C26_ReturnedIdIsStored ==
    /\ \A k \in 1..Len(sent) : HasMessage(messages, sent[k].id)
    /\ ~game_ended =>
        \A by \in ActsAs :
            LET S == send_message(Cur, "hi", by, TRUE, None, None, <<>>, LogPhrase)
            IN ~S.raised => HasMessage(S.messages, ChatMessageIDGenerator_next(id_generator).id)

(***************************************************************************)
(* Modifying a message that is already deleted                             *)
(***************************************************************************)
\* C27: an edit_message or delete_message call the human makes now on a
\* deleted message that was sent under another agent's id leaves the chat
\* log of every agent as it is
C27_NoNoteForNoOp ==
    \A i \in Editable, is_edit \in BOOLEAN :
        (messages[i].deleted /\ messages[i].sent_by # your_agent_id) =>
            \A x \in AgentIds :
                LogsAfterModify(i, is_edit, TRUE)[x] = all_agents[x].chat_logs

(***************************************************************************)
(* Pausing the agents' loops.  The tasks that start() created have not run *)
(* yet when it returns, so a pause() can come before the first iteration   *)
(* of a loop as well as between two later ones.                            *)
(***************************************************************************)
\* how often the model follows a loop round its pause check without a
\* suspension point in between
MaxSpins == 2

\* GameStateManager.pause_llms: ChatLoop.pause, if there is a chat loop
pause_llms ==
    /\ LoopFree
    /\ chat_loop
    /\ pause_loop' = TRUE
    /\ UNCHANGED <<your_agent_id, all_agents, remaining_agent_ids, messages, id_generator,
                   voting, vote_duration_timer, game_ended, game_won, who_talked,
                   talk_count, pending_events, llm_agent_ids, chat_loop, agent_turn,
                   background_worker, allocated, appended, sent, budget>>

\* ChatLoop.resume
resume ==
    /\ LoopFree
    /\ chat_loop
    /\ pause_loop' = FALSE
    /\ UNCHANGED <<your_agent_id, all_agents, remaining_agent_ids, messages, id_generator,
                   voting, vote_duration_timer, game_ended, game_won, who_talked,
                   talk_count, pending_events, llm_agent_ids, chat_loop, agent_turn,
                   background_worker, allocated, appended, sent, budget>>

\* whether the iteration that starts now awaits the jitter sleep
sleeps_first(turn) == ~turn.first_response

\* agent_loop finds the loop paused and goes back to the top of the loop; the
\* iteration had a suspension point only if it slept
PausedTurn ==
    \E a \in TurnTakers :
        /\ ~game_ended
        /\ agent_turn[a].at = "sleep"
        /\ pause_loop
        /\ \A x \in DOMAIN agent_turn : x # a => agent_turn[x].spins = 0
        /\ agent_turn[a].spins < MaxSpins
        /\ TurnStep(a, [agent_turn[a] EXCEPT
                            !.spins = IF sleeps_first(agent_turn[a]) THEN 0 ELSE @ + 1])

NextPause == \/ pause_llms \/ resume \/ PausedTurn \/ SkipTurn \/ BeginTurn
             \/ ReplyRejected \/ ValidReply \/ ApplyVote \/ RunAddEvent

SpecPause == Init /\ [][NextPause]_vars

\* C28: every iteration of an agent's loop passes a suspension point before
\* the next one starts, also while the loop is paused: no task goes round
\* its loop without giving up the event loop
C28_EveryIterationYields ==
    \A a \in DOMAIN agent_turn : agent_turn[a].spins = 0

(***************************************************************************)
(* The typing indicator                                                    *)
(***************************************************************************)
\* C29: an agent whose loop is not waiting for the LLM is not shown as
\* typing: the IS_TYPING(true) of a turn is taken back when the request has
\* returned, with a response that was sent or with none
C29_TypingTakenBack ==
    \A a \in DOMAIN agent_turn :
        agent_turn[a].at \in {"sleep", "voting"} => ~agent_turn[a].is_typing

(***************************************************************************)
(* The agents that remain                                                  *)
(***************************************************************************)
\* C30: while the game has not ended the human's agent is a remaining one and
\* at least min_agent_count agents remain; at no time fewer than two remain,
\* so that get_all_remaining_agents_ids does not fail its assertion, neither
\* now nor in an end_vote that closes the round now
C30_EnoughRemain ==
    /\ ~game_ended =>
            /\ your_agent_id \in remaining_agent_ids
            /\ Cardinality(remaining_agent_ids) >= min_agent_count
            /\ ~end_vote(Cur).raised
    /\ Cardinality(remaining_agent_ids) >= 2
    /\ ~GameState_announce_to_agents(Cur, "", None).raised

\* an agent was voted out of a game of four, which goes on with three
C30_Witness ==
    /\ ~game_ended
    /\ your_agent_id \in remaining_agent_ids
    /\ Cardinality(remaining_agent_ids) = 3
    /\ Cardinality(DOMAIN all_agents) = 4

====
